---- MODULE Spec2Model ----
(***************************************************************************)
(* Model of raspybd/ai_bot: the request-admission layer of src/app.py      *)
(* (rate_limit_check, cache_response, clean_cache, ask) and the ingestion  *)
(* and answering code of src/bot.py (DocumentManager.load_documents,       *)
(* DocumentBot.answer_question).                                           *)
(*                                                                         *)
(* Time is counted in ticks.  time.time() is read as the variable now; the *)
(* code only ever compares differences of two readings with a duration.    *)
(* Durations (CACHE_DURATION, time_window) are scaled from 3600 s to a few *)
(* ticks, max_requests from 100 to a few requests.                         *)
(***************************************************************************)
EXTENDS Integers, Sequences, FiniteSets, TLC

VARIABLES
    now,              \* the clock read by time.time()
    rate_limit_data,  \* app.rate_limit_data: ip -> <<count, timestamp>>
    rl,               \* the last rate_limit_check call: who, when, what it returned
    win,              \* observer: per client, the window its calls fall in
    admitted_at,      \* observer: per client and time, the calls that returned True
    response_cache,   \* response_cache: cache_key -> <<response, timestamp>>
    bot,              \* the module-level bot of app.py: TRUE, or FALSE for None
    last,             \* the last request to /api/ask and its outcome
    stored,           \* observer: per cache key, the last response stored for it
    aq_in,            \* answer_question: the configuration and what the chain does
    aq_out,           \* answer_question: what the call ended in
    all_files,        \* load_documents: the submitted files, each its content hash
    result,           \* load_documents: per file, what its future holds
    collected,        \* load_documents: the files the result loop has been through
    documents,        \* load_documents: the retained files, in the order extended
    processed_hashes, \* load_documents: the set of hashes seen
    hash_failed,      \* observer: the files whose _get_file_hash raised
    first_loaded,     \* observer: per hash, the file whose load completed first
    outcome,          \* observer: per file, how load_single_document ended
    load_raised,      \* load_documents: an exception left the call
    thr,              \* concurrent handlers: where each is in rate_limit_check
    admitted_calls,   \* observer: per client, the calls that returned True
    config,           \* the top-level keys config.yaml has
    corpus,           \* the documents load_documents returns, each its chunks
    index,            \* the persisted Chroma collection: the content of each entry
    started,          \* the last start of the process and how setup_bot ended
    cw,               \* concurrent handlers: where each is in cache_response
    sweep_failed      \* observer: the handlers whose clean_cache raised

rateVars == <<rate_limit_data, rl, win, admitted_at>>
pathVars == <<response_cache, bot, last, stored>>
answerVars == <<aq_in, aq_out>>
loadVars ==
    <<all_files, result, collected, documents, processed_hashes, hash_failed,
      first_loaded, outcome, load_raised>>
concVars == <<thr, admitted_calls>>
setupVars == <<config, corpus, index, started>>
sweepVars == <<cw, sweep_failed>>
vars ==
    <<now, rateVars, pathVars, answerVars, loadVars, concVars, setupVars,
      sweepVars>>

----------------------------------------------------------------------------
(* Bounds of the model and scaled program constants *)

MaxTime == 4
NClients == 2
max_requests == 2
time_window == 2
CACHE_DURATION == 2

Clients == 1..NClients
Times == 0..MaxTime

\* Question texts are sequences of characters; " " is the whitespace.
Questions == {<<" ">>, <<"a">>, <<" ", "a", " ">>}

\* What bot.answer_question can hand back: an answer of the chain, or the
\* fixed fallback of its except branch.
Fallback == "fallback"
Responses == {"answer", Fallback}

\* What lines 143-146 of ask end in: a response, or an exception that is not
\* an APIError (a response jsonify cannot serialise, a failing log handler)
Unexpected == "unexpected error"
HandlerOutcomes == Responses \cup {Unexpected}

\* The requests of Spec come from one client; SpecRate has them all.
PathClients == {1}

NoCall == [client |-> 0, t |-> 0, ret |-> FALSE]
NoWin == [start |-> 0, calls |-> 0, prevDenied |-> FALSE]
NoneAdmitted == [t \in Times |-> [n |-> 0, start |-> FALSE]]

----------------------------------------------------------------------------
(* Python dicts are functions with a finite domain *)

EmptyDict == [k \in {} |-> 0]

SetItem(d, key, value) ==
    [k \in DOMAIN d \cup {key} |-> IF k = key THEN value ELSE d[k]]

----------------------------------------------------------------------------
(* src/app.py rate_limit_check, lines 72-97 *)

\* lines 81-85: the dict comprehension that drops expired records
RateKeepMut(timestamp, current_time) == current_time - timestamp <= time_window
RateKeep(timestamp, current_time) == current_time - timestamp < time_window

CleanRateDataMut(data, current_time) ==
    [ip \in {i \in DOMAIN data : current_time - data[i][2] < time_window - 1}
        |-> data[ip]]
CleanRateData(data, current_time) ==
    [ip \in {i \in DOMAIN data : RateKeep(data[i][2], current_time)} |-> data[ip]]

\* line 91: the admission test inside a live window
OverLimitMut(count) == count > max_requests
OverLimit(count) == count >= max_requests

\* lines 87-97 on the cleaned map; the result is the new map and the return value
rate_limit_check(data, client_ip, current_time) ==
    LET cleaned == CleanRateData(data, current_time) IN
    IF client_ip \in DOMAIN cleaned
    THEN LET count == cleaned[client_ip][1]
             timestamp == cleaned[client_ip][2] IN
         IF current_time - timestamp < time_window
         THEN IF OverLimit(count)
              THEN [data |-> cleaned, ret |-> FALSE]
              ELSE [data |-> SetItem(cleaned, client_ip, <<count + 1, timestamp>>),
                    ret |-> TRUE]
         ELSE [data |-> cleaned, ret |-> TRUE]
    ELSE [data |-> SetItem(cleaned, client_ip, <<1, current_time>>), ret |-> TRUE]

----------------------------------------------------------------------------
(* Observer of the calls of one client: a window starts at the client's    *)
(* first call and at its first call made once time_window has elapsed      *)
(* since the start of the window before; calls counts the calls in it.     *)

CallsCap == max_requests + 2

\* the calls admitted at each time, and whether a record (1, t) was written
\* for the client at that time: a window of the client started there
ObserveAdmission(h, t, ret, started_window) ==
    [h EXCEPT ![t] = [n |-> IF ret THEN @.n + 1 ELSE @.n,
                      start |-> @.start \/ started_window]]

ObserveCall(w, t) ==
    IF w.calls = 0 \/ t - w.start >= time_window
    THEN [start |-> t, calls |-> 1, prevDenied |-> w.calls > max_requests]
    ELSE [start |-> w.start,
          calls |-> IF w.calls < CallsCap THEN w.calls + 1 ELSE CallsCap,
          prevDenied |-> w.prevDenied]

----------------------------------------------------------------------------
(* src/app.py cache_response, clean_cache and ask, lines 36-70 and 126-152 *)

\* str.strip() of line 137: drop the leading and the trailing whitespace
RECURSIVE lstrip(_)
lstrip(s) == IF s /= << >> /\ Head(s) = " " THEN lstrip(Tail(s)) ELSE s

RECURSIVE rstrip(_)
rstrip(s) ==
    IF s /= << >> /\ s[Len(s)] = " " THEN rstrip(SubSeq(s, 1, Len(s) - 1)) ELSE s

strip(s) == rstrip(lstrip(s))

\* line 40: cache_key = str(request.form.get('question', ''))
cache_key(question) == question

\* lines 44-46: the entry is there and not expired
CacheFreshMut(cache, key, current_time) ==
    /\ key \in DOMAIN cache
    /\ current_time - cache[key][2] <= CACHE_DURATION
CacheFresh(cache, key, current_time) ==
    /\ key \in DOMAIN cache
    /\ current_time - cache[key][2] < CACHE_DURATION

\* lines 47-48: a hit returns the cached response and writes nothing
CacheAfterHitMut(cache, key, current_time) ==
    SetItem(cache, key, <<cache[key][1], current_time>>)
CacheAfterHit(cache, key, current_time) == cache

\* lines 62-70
clean_cache(cache, current_time) ==
    [k \in {x \in DOMAIN cache : ~(current_time - cache[x][2] > CACHE_DURATION)}
        |-> cache[k]]

\* lines 50-59: what the wrapper does once the handler has returned a response
CacheAfterMissMut(cache, key, response, current_time, clean_time) ==
    clean_cache(cache, clean_time)
CacheAfterMiss(cache, key, response, current_time, clean_time) ==
    clean_cache(SetItem(cache, key, <<response, current_time>>), clean_time)

\* lines 51-54: the wrapper goes on to store only when the handler returned;
\* an APIError raised by ask leaves the wrapper at line 51
HandlerReturnsMut(status) == TRUE
HandlerReturns(status) == status = 200

\* lines 130-152: the handler.  status 200 carries the response of
\* bot.answer_question(question.strip()), the other statuses are APIErrors
\* raised through the wrapper.  admitted: rate_limit_check ran and returned True.
ask(data, client_ip, question, current_time, answer) ==
    LET r == rate_limit_check(data, client_ip, current_time) IN
    IF ~r.ret
    THEN [status |-> 429, data |-> r.data, admitted |-> FALSE, response |-> "none"]
    ELSE IF ~bot
    THEN [status |-> 503, data |-> r.data, admitted |-> TRUE, response |-> "none"]
    ELSE IF strip(question) = << >>
    THEN [status |-> 400, data |-> r.data, admitted |-> TRUE, response |-> "none"]
    ELSE IF answer = Unexpected
    THEN [status |-> 500, data |-> r.data, admitted |-> TRUE, response |-> "none"]
    ELSE [status |-> 200, data |-> r.data, admitted |-> TRUE, response |-> answer]

----------------------------------------------------------------------------
(* Observer of the stores: per cache key, the time and the response of the *)
(* last request whose handler returned a response, and whether a hit has   *)
(* been served for the key since.                                          *)

NoStore == [t |-> -1, response |-> "none", hit |-> FALSE]
\* prevT, prevHit: what the observer held for the request's key when it arrived
NoRequest ==
    [kind |-> "none", status |-> 0, client |-> 0, question |-> << >>, t |-> 0,
     admitted |-> FALSE, response |-> "none", prevT |-> -1, prevHit |-> FALSE]

\* The parts of the state a specification leaves alone
RateIdle ==
    /\ rate_limit_data = EmptyDict
    /\ rl = NoCall
    /\ win = [c \in Clients |-> NoWin]
    /\ admitted_at = [c \in PathClients |-> NoneAdmitted]

PathIdle ==
    /\ response_cache = EmptyDict
    /\ last = NoRequest
    /\ stored = [k \in Questions |-> NoStore]

AnswerIdle ==
    /\ aq_in = {}
    /\ aq_out = {}

LoadIdle ==
    /\ all_files = << >>
    /\ result = << >>
    /\ collected = {}
    /\ documents = << >>
    /\ processed_hashes = {}
    /\ hash_failed = {}
    /\ first_loaded = << >>
    /\ outcome = << >>
    /\ load_raised = FALSE

ConcIdle ==
    /\ thr = << >>
    /\ admitted_calls = << >>

NotStarted ==
    [n |-> 0, stages |-> << >>, exc |-> "none", failed |-> {}, before |-> 0]

SetupIdle ==
    /\ config = {}
    /\ corpus = << >>
    /\ index = << >>
    /\ started = NotStarted

SweepIdle ==
    /\ cw = << >>
    /\ sweep_failed = {}

----------------------------------------------------------------------------
(* Spec: requests to /api/ask served one after the other *)

Init ==
    /\ now = 0
    /\ bot \in BOOLEAN
    /\ RateIdle
    /\ PathIdle
    /\ AnswerIdle
    /\ LoadIdle
    /\ ConcIdle
    /\ SetupIdle
    /\ SweepIdle

Tick ==
    /\ now < MaxTime
    /\ now' = now + 1
    /\ UNCHANGED <<rateVars, pathVars, answerVars, loadVars, concVars,
                   setupVars, sweepVars>>

\* cache_response.wrapper, lines 39-48: the request is served from the cache
RequestHit(c, q) ==
    LET key == cache_key(q) IN
    /\ CacheFresh(response_cache, key, now)
    /\ response_cache' = CacheAfterHit(response_cache, key, now)
    /\ last' = [kind |-> "hit", status |-> 200, client |-> c, question |-> q, t |-> now,
                admitted |-> FALSE, response |-> response_cache[key][1],
                prevT |-> stored[key].t, prevHit |-> stored[key].hit]
    /\ stored' = [stored EXCEPT ![key].hit = TRUE]
    /\ UNCHANGED <<now, rateVars, bot, answerVars, loadVars, concVars,
                   setupVars, sweepVars>>

\* cache_response.wrapper, lines 39-46 and 50-59: the handler runs.  The clock
\* is read by the wrapper, then by rate_limit_check, then by clean_cache; a
\* request may straddle one tick.
RequestMiss(c, q, answer, d1, d2) ==
    LET key == cache_key(q)
        t1 == now
        t2 == now + d1
        t3 == now + d1 + d2
        a == ask(rate_limit_data, c, q, t2, answer)
    IN
    /\ ~CacheFresh(response_cache, key, t1)
    /\ t3 <= MaxTime
    /\ d1 + d2 <= 1
    /\ rate_limit_data' = a.data
    /\ IF HandlerReturns(a.status)
       THEN /\ response_cache' = CacheAfterMiss(response_cache, key, a.response, t1, t3)
            /\ stored' = [stored EXCEPT
                             ![key] = [t |-> t1, response |-> a.response, hit |-> FALSE]]
            /\ now' = t3
       ELSE /\ UNCHANGED <<response_cache, stored>>
            /\ now' = t2
    /\ last' = [kind |-> IF a.status = 200 THEN "ok" ELSE "error", status |-> a.status,
                client |-> c, question |-> q, t |-> t1, admitted |-> a.admitted,
                response |-> a.response, prevT |-> stored[key].t,
                prevHit |-> stored[key].hit]
    /\ UNCHANGED <<rl, win, admitted_at, bot, answerVars, loadVars, concVars,
                   setupVars, sweepVars>>

Next ==
    \/ Tick
    \/ \E c \in PathClients, q \in Questions : RequestHit(c, q)
    \/ \E c \in PathClients, q \in Questions, answer \in HandlerOutcomes,
          d1, d2 \in {0, 1} :
           RequestMiss(c, q, answer, d1, d2)

Spec == Init /\ [][Next]_vars

----------------------------------------------------------------------------
(* SpecRate: clients calling rate_limit_check one after the other *)

InitRate ==
    /\ now = 0
    /\ bot = TRUE
    /\ RateIdle
    /\ PathIdle
    /\ AnswerIdle
    /\ LoadIdle
    /\ ConcIdle
    /\ SetupIdle
    /\ SweepIdle

RateCall(c) ==
    LET r == rate_limit_check(rate_limit_data, c, now) IN
    /\ rate_limit_data' = r.data
    /\ rl' = [client |-> c, t |-> now, ret |-> r.ret]
    /\ win' = [win EXCEPT ![c] = ObserveCall(win[c], now)]
    /\ UNCHANGED <<now, admitted_at, pathVars, answerVars, loadVars, concVars,
                   setupVars, sweepVars>>

NextRate == Tick \/ \E c \in Clients : RateCall(c)

SpecRate == InitRate /\ [][NextRate]_vars

----------------------------------------------------------------------------
(* SpecBurst: one client calling rate_limit_check one call after the       *)
(* other, with the calls admitted at each time kept                        *)

BurstCall(c) ==
    LET r == rate_limit_check(rate_limit_data, c, now) IN
    /\ rate_limit_data' = r.data
    /\ rl' = [client |-> c, t |-> now, ret |-> r.ret]
    /\ win' = [win EXCEPT ![c] = ObserveCall(win[c], now)]
    /\ admitted_at' =
           [admitted_at EXCEPT ![c] =
               ObserveAdmission(@, now, r.ret,
                                /\ r.data[c] = <<1, now>>
                                /\ \/ c \notin DOMAIN rate_limit_data
                                   \/ rate_limit_data[c] /= <<1, now>>)]
    /\ UNCHANGED <<now, pathVars, answerVars, loadVars, concVars,
                   setupVars, sweepVars>>

NextBurst == Tick \/ \E c \in PathClients : BurstCall(c)

SpecBurst == InitRate /\ [][NextBurst]_vars

----------------------------------------------------------------------------
(* src/bot.py DocumentBot.answer_question, lines 223-269 *)

MaxDocs == 3          \* the longest list of source documents the chain returns
MaxSourcesCfg == 2    \* the largest max_sources the configuration sets
DefaultMaxSources == 5

\* A configuration key is a set: empty when the key is absent, else its value
Missing == {}
Some(values) == {{v} : v \in values}
FallbackText == "fallback text"

\* Retrieved chunks: page_content and the keys of the metadata
Docs ==
    {[page_content |-> "a", metadata |-> {"source"}],
     [page_content |-> "a", metadata |-> {"source", "page"}],
     [page_content |-> "b", metadata |-> {"source"}],
     [page_content |-> "c", metadata |-> {"source", "file_path"}]}

DocLists == UNION {[1..n -> Docs] : n \in 0..MaxDocs}

\* self.config['response_format']: absent, or a dict whose keys may be absent
ResponseFormats ==
    {Missing} \cup
    Some([max_sources : {Missing} \cup Some(1..MaxSourcesCfg),
          filter_duplicates : {Missing} \cup Some(BOOLEAN),
          include_metadata : {Missing} \cup Some(BOOLEAN)])

\* What self.qa({"query": question}) does: raise, or return the result dict
ChainOutcomes ==
    [kind : {"raise"}, result : {"none"}, source_documents : {<< >>}] \cup
    [kind : {"ok"}, result : {"ans1", "ans2"}, source_documents : DocLists]

AnswerInputs == [response_format : ResponseFormats, chain : ChainOutcomes]

\* dict.get(key, default)
Get(value, default) == IF value = Missing THEN default ELSE CHOOSE v \in value : TRUE

\* line 244: result["source_documents"][:max_sources]
Take(docs, n) == SubSeq(docs, 1, IF Len(docs) < n THEN Len(docs) ELSE n)

\* lines 244-253: the loop over the capped list
RECURSIVE ShapeSources(_, _, _, _)
ShapeSources(docs, seen_contents, filter_duplicates, include_metadata) ==
    IF docs = << >> THEN << >>
    ELSE LET doc == Head(docs) IN
         IF doc.page_content \in seen_contents /\ filter_duplicates
         THEN ShapeSources(Tail(docs), seen_contents, filter_duplicates,
                           include_metadata)
         ELSE <<[content |-> doc.page_content,
                 metadata |-> IF include_metadata THEN doc.metadata ELSE {}]>>
              \o ShapeSources(Tail(docs), seen_contents \cup {doc.page_content},
                              filter_duplicates, include_metadata)

\* lines 234-261: the body of the try; exc names what it raises, if anything
TryBody(in) ==
    IF in.chain.kind = "raise"
    THEN [exc |-> "Exception", answer |-> "none", sources |-> << >>]
    ELSE IF in.response_format = Missing
    THEN [exc |-> "KeyError", answer |-> "none", sources |-> << >>]
    ELSE LET response_format == Get(in.response_format, Missing)
             max_sources == Get(response_format.max_sources, DefaultMaxSources)
         IN [exc |-> "none",
             answer |-> in.chain.result,
             sources |->
                 ShapeSources(Take(in.chain.source_documents, max_sources), {},
                              Get(response_format.filter_duplicates, TRUE),
                              Get(response_format.include_metadata, TRUE))]

\* line 263: except Exception
CatchesMut(exc) == exc = "KeyError"
Catches(exc) == exc /= "none"

\* raised: the exception left answer_question
answer_question(in) ==
    LET b == TryBody(in) IN
    IF b.exc = "none"
    THEN [raised |-> FALSE, answer |-> b.answer, sources |-> b.sources]
    ELSE IF Catches(b.exc)
    THEN [raised |-> FALSE, answer |-> FallbackText, sources |-> << >>]
    ELSE [raised |-> TRUE, answer |-> "none", sources |-> << >>]

----------------------------------------------------------------------------
(* SpecAnswer: answer_question called once on every input *)

InitAnswer ==
    /\ now = 0
    /\ bot = TRUE
    /\ RateIdle
    /\ PathIdle
    /\ aq_in \in Some(AnswerInputs)
    /\ aq_out = {}
    /\ LoadIdle
    /\ ConcIdle
    /\ SetupIdle
    /\ SweepIdle

AnswerQuestion ==
    /\ aq_out = {}
    /\ aq_out' = {answer_question(Get(aq_in, Missing))}
    /\ UNCHANGED <<now, rateVars, pathVars, aq_in, loadVars, concVars,
                   setupVars, sweepVars>>

NextAnswer == AnswerQuestion

SpecAnswer == InitAnswer /\ [][NextAnswer]_vars

----------------------------------------------------------------------------
(* src/bot.py DocumentManager.load_documents, lines 79-110 *)

MaxFiles == 3     \* the most files the directory holds
NHashes == 2      \* the number of distinct file contents

Hashes == 1..NHashes
FileLists == UNION {[1..n -> Hashes] : n \in 0..MaxFiles}
Files == DOMAIN all_files

\* line 97: for future in future_to_file walks the futures in the order they
\* were submitted, and line 100 future.result() waits for that one
CanCollectMut(i) ==
    /\ i \notin collected
    /\ result[i] /= "pending"
CanCollect(i) ==
    /\ i \notin collected
    /\ result[i] /= "pending"
    /\ \A j \in Files : j < i => j \in collected

\* lines 57-77, load_single_document by what the file is: the extension is not
\* allowed (59-61), the file is too large (63-65), no loader is registered
\* for the extension (67-70), the loader raises (75-77), or the loader returns
\* a list, empty or not (73).  Every failure ends in None.
FileKinds == {"disallowed", "oversized", "no_loader", "parser_error", "empty", "docs"}
load_single_document(file_kind) ==
    IF file_kind = "disallowed" THEN "falsy"
    ELSE IF file_kind = "oversized" THEN "falsy"
    ELSE IF file_kind = "no_loader" THEN "falsy"
    ELSE IF file_kind = "parser_error" THEN "falsy"
    ELSE IF file_kind = "empty" THEN "falsy"
    ELSE "docs"

\* line 106: except Exception, around lines 100-105
CollectCatchesMut(exc) == FALSE
CollectCatches(exc) == exc /= "none"

\* line 103: if file_hash not in processed_hashes
NotSeenMut(file_hash, hashes) == TRUE
NotSeen(file_hash, hashes) == file_hash \notin hashes

----------------------------------------------------------------------------
(* SpecLoad: one call of load_documents; the pool's workers end in any     *)
(* order while the caller walks the futures                                *)

InitLoad ==
    /\ now = 0
    /\ bot = TRUE
    /\ RateIdle
    /\ PathIdle
    /\ AnswerIdle
    /\ all_files \in FileLists
    /\ result = [i \in DOMAIN all_files |-> "pending"]
    /\ collected = {}
    /\ documents = << >>
    /\ processed_hashes = {}
    /\ hash_failed = {}
    /\ first_loaded = [h \in Hashes |-> 0]
    /\ outcome = [i \in DOMAIN all_files |-> "pending"]
    /\ load_raised = FALSE
    /\ ConcIdle
    /\ SetupIdle
    /\ SweepIdle

\* a worker ends load_single_document (lines 55-77): docs is a non-empty list,
\* "falsy" is None (a skipped or failed file) or an empty list
LoadSingleDocument(i, file_kind) ==
    LET docs == load_single_document(file_kind) IN
    /\ result[i] = "pending"
    /\ result' = [result EXCEPT ![i] = docs]
    /\ outcome' = [outcome EXCEPT ![i] = file_kind]
    /\ first_loaded' =
           IF docs = "docs" /\ first_loaded[all_files[i]] = 0
           THEN [first_loaded EXCEPT ![all_files[i]] = i]
           ELSE first_loaded
    /\ UNCHANGED <<now, rateVars, pathVars, answerVars, concVars, setupVars,
                   sweepVars, all_files,
                   collected, documents, processed_hashes, hash_failed,
                   load_raised>>

\* one round of the loop of lines 97-108; hash_ok: _get_file_hash returned.
\* An exception that line 106 does not catch leaves load_documents.
CollectResult(i, hash_ok) ==
    LET exc == IF result[i] = "docs" /\ ~hash_ok THEN "OSError" ELSE "none" IN
    /\ ~load_raised
    /\ CanCollect(i)
    /\ IF exc = "none"
       THEN /\ collected' = collected \cup {i}
            /\ IF result[i] = "docs" /\ NotSeen(all_files[i], processed_hashes)
               THEN /\ documents' = Append(documents, i)
                    /\ processed_hashes' = processed_hashes \cup {all_files[i]}
               ELSE UNCHANGED <<documents, processed_hashes>>
            /\ UNCHANGED <<hash_failed, load_raised>>
       ELSE /\ hash_failed' = hash_failed \cup {i}
            /\ IF CollectCatches(exc)
               THEN /\ collected' = collected \cup {i}
                    /\ UNCHANGED load_raised
               ELSE /\ load_raised' = TRUE
                    /\ UNCHANGED collected
            /\ UNCHANGED <<documents, processed_hashes>>
    /\ UNCHANGED <<now, rateVars, pathVars, answerVars, concVars, setupVars,
                   sweepVars, all_files,
                   result, first_loaded, outcome>>

NextLoad ==
    \/ \E i \in Files, file_kind \in FileKinds : LoadSingleDocument(i, file_kind)
    \/ \E i \in Files, hash_ok \in BOOLEAN : CollectResult(i, hash_ok)

SpecLoad == InitLoad /\ [][NextLoad]_vars

----------------------------------------------------------------------------
(* SpecConc: rate_limit_check (src/app.py lines 72-97) run by concurrent   *)
(* request handlers.  The code takes no lock, so the handlers interleave   *)
(* between its statements.  Each statement is one step; the dict           *)
(* comprehension of lines 81-85 is evaluated in one step and assigned in   *)
(* the next.  The clock stays inside one window.                           *)

NThreads == 2
Threads == 1..NThreads
AdmittedCap == max_requests + 1

\* The concurrent calls come from one client
ConcClients == {1}

IdleThread ==
    [pc |-> "idle", client |-> 0, current_time |-> 0, fresh |-> EmptyDict,
     count |-> 0, timestamp |-> 0]

InitConc ==
    /\ now = 0
    /\ bot = TRUE
    /\ RateIdle
    /\ PathIdle
    /\ AnswerIdle
    /\ LoadIdle
    /\ thr = [th \in Threads |-> IdleThread]
    /\ admitted_calls = [c \in ConcClients |-> 0]
    /\ SetupIdle
    /\ SweepIdle

ConcRest == <<rl, win, admitted_at, pathVars, answerVars, loadVars, setupVars, sweepVars>>

TickConc ==
    /\ now + 1 < time_window
    /\ now' = now + 1
    /\ UNCHANGED <<rate_limit_data, thr, admitted_calls, ConcRest>>

\* the call ends: the handler is free for its next request
Return(th, ret) ==
    /\ thr' = [thr EXCEPT ![th] = IdleThread]
    /\ admitted_calls' =
           IF ret /\ admitted_calls[thr[th].client] < AdmittedCap
           THEN [admitted_calls EXCEPT ![thr[th].client] = @ + 1]
           ELSE admitted_calls

\* lines 74-75
Begin(th, c) ==
    /\ thr[th].pc = "idle"
    /\ thr' = [thr EXCEPT ![th] = [IdleThread EXCEPT !.pc = "clean", !.client = c,
                                                      !.current_time = now]]
    /\ UNCHANGED <<now, rate_limit_data, admitted_calls, ConcRest>>

\* lines 81-85, the right-hand side
BuildClean(th) ==
    /\ thr[th].pc = "clean"
    /\ thr' = [thr EXCEPT ![th].pc = "assign",
                          ![th].fresh = CleanRateData(rate_limit_data,
                                                      thr[th].current_time)]
    /\ UNCHANGED <<now, rate_limit_data, admitted_calls, ConcRest>>

\* line 81, the assignment
AssignClean(th) ==
    /\ thr[th].pc = "assign"
    /\ rate_limit_data' = thr[th].fresh
    /\ thr' = [thr EXCEPT ![th].pc = "test", ![th].fresh = EmptyDict]
    /\ UNCHANGED <<now, admitted_calls, ConcRest>>

\* line 88
TestPresent(th) ==
    /\ thr[th].pc = "test"
    /\ thr' = [thr EXCEPT ![th].pc =
                  IF thr[th].client \in DOMAIN rate_limit_data THEN "read" ELSE "insert"]
    /\ UNCHANGED <<now, rate_limit_data, admitted_calls, ConcRest>>

\* line 89; a record gone by now is a KeyError, which ends the request
ReadRecord(th) ==
    /\ thr[th].pc = "read"
    /\ IF thr[th].client \in DOMAIN rate_limit_data
       THEN /\ thr' = [thr EXCEPT ![th].pc = "decide",
                          ![th].count = rate_limit_data[thr[th].client][1],
                          ![th].timestamp = rate_limit_data[thr[th].client][2]]
            /\ UNCHANGED admitted_calls
       ELSE Return(th, FALSE)
    /\ UNCHANGED <<now, rate_limit_data, ConcRest>>

\* lines 90-93 and 97
Decide(th) ==
    /\ thr[th].pc = "decide"
    /\ IF thr[th].current_time - thr[th].timestamp < time_window
       THEN IF OverLimit(thr[th].count)
            THEN /\ Return(th, FALSE)
                 /\ UNCHANGED rate_limit_data
            ELSE /\ rate_limit_data' =
                        SetItem(rate_limit_data, thr[th].client,
                                <<thr[th].count + 1, thr[th].timestamp>>)
                 /\ Return(th, TRUE)
       ELSE /\ Return(th, TRUE)
            /\ UNCHANGED rate_limit_data
    /\ UNCHANGED <<now, ConcRest>>

\* lines 95 and 97
InsertRecord(th) ==
    /\ thr[th].pc = "insert"
    /\ rate_limit_data' =
           SetItem(rate_limit_data, thr[th].client, <<1, thr[th].current_time>>)
    /\ Return(th, TRUE)
    /\ UNCHANGED <<now, ConcRest>>

NextConc ==
    \/ TickConc
    \/ \E th \in Threads, c \in ConcClients : Begin(th, c)
    \/ \E th \in Threads : BuildClean(th)
    \/ \E th \in Threads : AssignClean(th)
    \/ \E th \in Threads : TestPresent(th)
    \/ \E th \in Threads : ReadRecord(th)
    \/ \E th \in Threads : Decide(th)
    \/ \E th \in Threads : InsertRecord(th)

SpecConc == InitConc /\ [][NextConc]_vars

----------------------------------------------------------------------------
(* src/bot.py DocumentBot.setup_bot, lines 153-221, and the start of the   *)
(* process, src/app.py lines 113-119.  OPENAI_API_KEY and config.yaml are   *)
(* there; config.yaml may lack one of the top-level keys the code reads.    *)

MaxCorpus == 2    \* the most documents load_documents returns
MaxStarts == 2    \* the number of times the process is started

\* the top-level keys of the configuration the code subscripts
RequiredSections ==
    {"document_settings", "vector_store", "search_settings", "model_settings",
     "response_format"}
Configs == {RequiredSections} \cup {RequiredSections \ {k} : k \in RequiredSections}

\* what split_documents makes of one document: the contents of its chunks
DocChunks == {<<"x">>, <<"x", "y">>}
Corpora == UNION {[1..n -> DocChunks] : n \in 0..MaxCorpus}

\* line 175: the chunks of the documents, in order
RECURSIVE split_documents(_)
split_documents(docs) ==
    IF docs = << >> THEN << >> ELSE Head(docs) \o split_documents(Tail(docs))

\* the chunks whose embedding call fails during a start: none, the last one,
\* or all of them (the embedding service is unreachable)
EmbedFailures(n) == IF n = 0 THEN {{}} ELSE {{}, {n}, 1..n}

\* line 164: if not documents
NoDocumentsMut(docs) == FALSE
NoDocuments(docs) == docs = << >>

\* lines 186-191: Chroma.from_documents embeds every chunk before it adds
\* any; an embedding call that fails raises out of it
EmbedRaisesMut(failed) == FALSE
EmbedRaises(failed) == failed /= {}

RECURSIVE Embedded(_, _, _)
Embedded(texts, failed, i) ==
    IF i > Len(texts) THEN << >>
    ELSE (IF i \in failed THEN << >> ELSE <<texts[i]>>) \o Embedded(texts, failed, i + 1)

\* lines 186-192: from_documents opens the collection of persist_directory,
\* adds one entry (under a new id) per embedded chunk, and persist() saves it
from_documents(idx, texts, failed) == idx \o Embedded(texts, failed, 1)

\* lines 155-221: exc is the exception the except of line 219 logs and raises
\* again, stages the steps the call went through, index the collection after
setup_bot(cfg, docs, failed, idx) ==
    IF "document_settings" \notin cfg
    THEN [exc |-> "KeyError", stages |-> << >>, index |-> idx]
    ELSE IF NoDocuments(docs)
    THEN [exc |-> "ValueError", stages |-> <<"load">>, index |-> idx]
    ELSE IF "vector_store" \notin cfg
    THEN [exc |-> "KeyError", stages |-> <<"load", "split">>, index |-> idx]
    ELSE IF EmbedRaises(failed)
    THEN [exc |-> "EmbeddingError", stages |-> <<"load", "split", "embed">>,
          index |-> idx]
    ELSE LET db == from_documents(idx, split_documents(docs), failed) IN
         IF "search_settings" \notin cfg
         THEN [exc |-> "KeyError", stages |-> <<"load", "split", "embed", "index">>,
               index |-> db]
         ELSE IF "model_settings" \notin cfg
         THEN [exc |-> "KeyError",
               stages |-> <<"load", "split", "embed", "index", "retriever">>,
               index |-> db]
         ELSE [exc |-> "none",
               stages |-> <<"load", "split", "embed", "index", "retriever", "qa">>,
               index |-> db]

\* src/app.py lines 154-160
health_check(b) == IF b THEN "healthy" ELSE "unavailable"

\* self.config['response_format'] of a configuration that has the key: a
\* dict that leaves every setting to its default
ConfiguredFormat ==
    {[max_sources |-> Missing, filter_duplicates |-> Missing,
      include_metadata |-> Missing]}

\* what the chain does for the requests of SpecSetup
SetupChains == {c \in ChainOutcomes : c.source_documents = << >>}
SetupQuestions == {<<" ">>, <<"a">>}

----------------------------------------------------------------------------
(* SpecSetup: the process is started, serves requests, and is started      *)
(* again on the same corpus, configuration and persist directory           *)

InitSetup ==
    /\ now = 0
    /\ bot = FALSE
    /\ RateIdle
    /\ PathIdle
    /\ AnswerIdle
    /\ LoadIdle
    /\ ConcIdle
    /\ config \in Configs
    /\ corpus \in Corpora
    /\ index = << >>
    /\ started = NotStarted
    /\ SweepIdle

\* src/app.py lines 113-119: the module is loaded; DocumentBot() runs
\* setup_bot, and bot is None when it raises.  The maps in memory start empty.
Start(failed) ==
    LET s == setup_bot(config, corpus, failed, index) IN
    /\ started.n < MaxStarts
    /\ failed \in EmbedFailures(Len(split_documents(corpus)))
    /\ bot' = (s.exc = "none")
    /\ index' = s.index
    /\ started' = [n |-> started.n + 1, stages |-> s.stages, exc |-> s.exc,
                   failed |-> IF Len(s.stages) >= 3 THEN failed ELSE {},
                   before |-> Len(index)]
    /\ rate_limit_data' = EmptyDict
    /\ response_cache' = EmptyDict
    /\ last' = NoRequest
    /\ stored' = [k \in Questions |-> NoStore]
    /\ aq_in' = {}
    /\ aq_out' = {}
    /\ UNCHANGED <<now, rl, win, admitted_at, loadVars, concVars, config, corpus,
                   sweepVars>>

\* cache_response.wrapper, lines 39-48: the request is served from the cache
ServeHit(c, q) ==
    /\ started.n > 0
    /\ RequestHit(c, q)

\* cache_response.wrapper, lines 39-46 and 50-59: the handler runs, and with
\* status 200 it has called bot.answer_question
ServeMiss(c, q, chain) ==
    LET key == cache_key(q)
        in == [response_format |->
                   IF "response_format" \in config THEN ConfiguredFormat ELSE Missing,
               chain |-> chain]
        out == answer_question(in)
        answer == IF out.answer = FallbackText THEN Fallback ELSE "answer"
        a == ask(rate_limit_data, c, q, now, answer)
    IN
    /\ started.n > 0
    /\ ~CacheFresh(response_cache, key, now)
    /\ rate_limit_data' = a.data
    /\ IF HandlerReturns(a.status)
       THEN /\ response_cache' = CacheAfterMiss(response_cache, key, a.response, now, now)
            /\ stored' = [stored EXCEPT
                             ![key] = [t |-> now, response |-> a.response, hit |-> FALSE]]
            /\ aq_in' = {in}
            /\ aq_out' = {out}
       ELSE UNCHANGED <<response_cache, stored, aq_in, aq_out>>
    /\ last' = [kind |-> IF a.status = 200 THEN "ok" ELSE "error", status |-> a.status,
                client |-> c, question |-> q, t |-> now, admitted |-> a.admitted,
                response |-> a.response, prevT |-> stored[key].t,
                prevHit |-> stored[key].hit]
    /\ UNCHANGED <<now, rl, win, admitted_at, bot, loadVars, concVars, setupVars,
                   sweepVars>>

NextSetup ==
    \/ \E failed \in SUBSET (1..(2 * MaxCorpus)) : Start(failed)
    \/ \E c \in PathClients, q \in SetupQuestions : ServeHit(c, q)
    \/ \E c \in PathClients, q \in SetupQuestions, chain \in SetupChains :
           ServeMiss(c, q, chain)

SpecSetup == InitSetup /\ [][NextSetup]_vars

----------------------------------------------------------------------------
(* SpecServing: a process whose start succeeded serves requests one after  *)
(* the other while the clock runs; bot.answer_question is the model of      *)
(* lines 223-269                                                            *)

\* the corpus of the serving process, and how its start ended
ServingCorpus == <<<<"x">>>>
ServingStart(cfg) == setup_bot(cfg, ServingCorpus, {}, << >>)

InitServing ==
    /\ now = 0
    /\ bot = TRUE
    /\ RateIdle
    /\ PathIdle
    /\ AnswerIdle
    /\ LoadIdle
    /\ ConcIdle
    /\ config \in {cfg \in Configs : ServingStart(cfg).exc = "none"}
    /\ corpus = ServingCorpus
    /\ index = ServingStart(config).index
    /\ started = [n |-> 1, stages |-> ServingStart(config).stages, exc |-> "none",
                  failed |-> {}, before |-> 0]
    /\ SweepIdle

NextServing ==
    \/ Tick
    \/ \E c \in PathClients, q \in SetupQuestions : ServeHit(c, q)
    \/ \E c \in PathClients, q \in SetupQuestions, chain \in SetupChains :
           ServeMiss(c, q, chain)

SpecServing == InitServing /\ [][NextServing]_vars

----------------------------------------------------------------------------
(* SpecSweep: cache_response.wrapper and clean_cache (src/app.py lines     *)
(* 36-70) run by concurrent request handlers.  The code takes no lock, so   *)
(* the handlers interleave between its statements.  Each statement is one   *)
(* step; the handler call of line 51 and the list comprehension of lines    *)
(* 65-68 are one step each.                                                 *)

SweepQuestions == {<<"a">>, <<" ", "a", " ">>}

IdleWrapper ==
    [pc |-> "idle", client |-> 0, question |-> << >>, current_time |-> 0,
     response |-> "none", expired_keys |-> {}]

InitSweep ==
    /\ now = 0
    /\ bot = TRUE
    /\ RateIdle
    /\ PathIdle
    /\ AnswerIdle
    /\ LoadIdle
    /\ ConcIdle
    /\ SetupIdle
    /\ cw = [th \in Threads |-> IdleWrapper]
    /\ sweep_failed = {}

SweepRest ==
    <<rl, win, admitted_at, bot, last, stored, answerVars, loadVars, concVars, setupVars>>

\* a request is short against CACHE_DURATION: it straddles at most one tick
TickSweep ==
    /\ now < MaxTime
    /\ \A th \in Threads : cw[th].pc /= "idle" => cw[th].current_time = now
    /\ now' = now + 1
    /\ UNCHANGED <<rate_limit_data, response_cache, sweepVars, SweepRest>>

\* lines 40-41
Enter(th, c, q) ==
    /\ cw[th].pc = "idle"
    /\ cw' = [cw EXCEPT ![th] = [IdleWrapper EXCEPT !.pc = "test", !.client = c,
                                                    !.question = q,
                                                    !.current_time = now]]
    /\ UNCHANGED <<now, rate_limit_data, response_cache, sweep_failed, SweepRest>>

\* line 44
TestCached(th) ==
    /\ cw[th].pc = "test"
    /\ cw' = [cw EXCEPT ![th].pc =
                 IF cache_key(cw[th].question) \in DOMAIN response_cache
                 THEN "read" ELSE "handler"]
    /\ UNCHANGED <<now, rate_limit_data, response_cache, sweep_failed, SweepRest>>

\* lines 45-48; an entry gone by now is a KeyError, which ends the request
ReadCached(th) ==
    /\ cw[th].pc = "read"
    /\ cw' = [cw EXCEPT ![th] =
                 IF /\ cache_key(cw[th].question) \in DOMAIN response_cache
                    /\ ~CacheFresh(response_cache, cache_key(cw[th].question),
                                   cw[th].current_time)
                 THEN [cw[th] EXCEPT !.pc = "handler"]
                 ELSE IdleWrapper]
    /\ UNCHANGED <<now, rate_limit_data, response_cache, sweep_failed, SweepRest>>

\* line 51: ask runs; an APIError leaves the wrapper
CallHandler(th) ==
    LET a == ask(rate_limit_data, cw[th].client, cw[th].question, now, "answer") IN
    /\ cw[th].pc = "handler"
    /\ rate_limit_data' = a.data
    /\ cw' = [cw EXCEPT ![th] =
                 IF a.status = 200
                 THEN [cw[th] EXCEPT !.pc = "store", !.response = a.response]
                 ELSE IdleWrapper]
    /\ UNCHANGED <<now, response_cache, sweep_failed, SweepRest>>

\* line 54
StoreResponse(th) ==
    /\ cw[th].pc = "store"
    /\ response_cache' =
           SetItem(response_cache, cache_key(cw[th].question),
                   <<cw[th].response, cw[th].current_time>>)
    /\ cw' = [cw EXCEPT ![th].pc = "collect"]
    /\ UNCHANGED <<now, rate_limit_data, sweep_failed, SweepRest>>

\* lines 64-68: the keys clean_cache is going to delete
ExpiredKeys(cache, current_time) ==
    {k \in DOMAIN cache : current_time - cache[k][2] > CACHE_DURATION}

CollectExpired(th) ==
    LET expired_keys == ExpiredKeys(response_cache, now) IN
    /\ cw[th].pc = "collect"
    /\ cw' = [cw EXCEPT ![th] =
                 IF expired_keys = {} THEN IdleWrapper
                 ELSE [cw[th] EXCEPT !.pc = "delete", !.expired_keys = expired_keys]]
    /\ UNCHANGED <<now, rate_limit_data, response_cache, sweep_failed, SweepRest>>

\* lines 69-70, one round of the loop: del response_cache[k] for the next key
\* of the list; a key that is no longer there is a KeyError, which leaves
\* clean_cache and the wrapper
DeleteExpired(th) ==
    LET k == CHOOSE x \in cw[th].expired_keys : TRUE
        rest == cw[th].expired_keys \ {k}
    IN
    /\ cw[th].pc = "delete"
    /\ IF k \in DOMAIN response_cache
       THEN /\ response_cache' = [x \in DOMAIN response_cache \ {k} |-> response_cache[x]]
            /\ cw' = [cw EXCEPT ![th] =
                         IF rest = {} THEN IdleWrapper
                         ELSE [cw[th] EXCEPT !.expired_keys = rest]]
            /\ UNCHANGED sweep_failed
       ELSE /\ sweep_failed' = sweep_failed \cup {th}
            /\ cw' = [cw EXCEPT ![th] = IdleWrapper]
            /\ UNCHANGED response_cache
    /\ UNCHANGED <<now, rate_limit_data, SweepRest>>

NextSweep ==
    \/ TickSweep
    \/ \E th \in Threads, c \in ConcClients, q \in SweepQuestions : Enter(th, c, q)
    \/ \E th \in Threads : TestCached(th)
    \/ \E th \in Threads : ReadCached(th)
    \/ \E th \in Threads : CallHandler(th)
    \/ \E th \in Threads : StoreResponse(th)
    \/ \E th \in Threads : CollectExpired(th)
    \/ \E th \in Threads : DeleteExpired(th)

SpecSweep == InitSweep /\ [][NextSweep]_vars

----------------------------------------------------------------------------
\* C1: for one client calling rate_limit_check one call after the other, the
\* first max_requests calls of a window (calls made less than time_window
\* after the call that started it) return True, the call after them in the
\* same window returns False, and the first call made once time_window has
\* elapsed since the window start returns True.
C1_RateLimitWindow ==
    rl.client /= 0 =>
        LET k == win[rl.client].calls IN
        /\ (k <= max_requests => rl.ret)
        /\ (k = max_requests + 1 => ~rl.ret)

\* a client was denied in a window and its first call once that window had
\* elapsed has just been admitted
C1_Witness ==
    /\ rl.client /= 0
    /\ win[rl.client].calls = 1
    /\ win[rl.client].prevDenied
    /\ rl.ret

\* the step is a call of rate_limit_check by client c
CallBy(c) == now' = now /\ rl'.client = c

\* C18: with the calls made one after the other, every record holds a count
\* from 1 to max_requests; a record whose window is live keeps its
\* window_start and its count does not decrease; a denied call leaves the
\* caller's record as it was; and the caller's first call at or after
\* window_start + time_window, like its first call ever, sets its record to
\* (1, now) in that step.
C18_RecordStep ==
    /\ \A c \in DOMAIN rate_limit_data' :
           /\ 1 <= rate_limit_data'[c][1]
           /\ rate_limit_data'[c][1] <= max_requests
    /\ \A c \in DOMAIN rate_limit_data :
           now' - rate_limit_data[c][2] < time_window =>
               /\ c \in DOMAIN rate_limit_data'
               /\ rate_limit_data'[c][2] = rate_limit_data[c][2]
               /\ rate_limit_data'[c][1] >= rate_limit_data[c][1]
    /\ \A c \in Clients :
           CallBy(c) =>
               /\ ~rl'.ret =>
                      /\ c \in DOMAIN rate_limit_data
                      /\ c \in DOMAIN rate_limit_data'
                      /\ rate_limit_data'[c] = rate_limit_data[c]
               /\ (\/ c \notin DOMAIN rate_limit_data
                   \/ now - rate_limit_data[c][2] >= time_window) =>
                      /\ c \in DOMAIN rate_limit_data'
                      /\ rate_limit_data'[c] = <<1, now>>

C18_RecordInvariants == [][C18_RecordStep]_vars

\* a client that was denied in a window has made its first call once the
\* window had elapsed, and its record is (1, now)
C18_Witness ==
    /\ rl.client /= 0
    /\ rl.t = now
    /\ now >= time_window
    /\ win[rl.client].prevDenied
    /\ win[rl.client].calls = 1
    /\ rl.client \in DOMAIN rate_limit_data
    /\ rate_limit_data[rl.client] = <<1, now>>

----------------------------------------------------------------------------
LastKey == cache_key(last.question)

\* C2 as stated: a request for a key whose last response was stored less than
\* CACHE_DURATION before it is served the stored response without the handler
\* running; a request arriving once CACHE_DURATION has elapsed runs the
\* handler again and the entry is rewritten with the new time.
C2_Original ==
    (last.kind /= "none" /\ last.prevT >= 0) =>
        /\ (last.t - last.prevT < CACHE_DURATION =>
                /\ last.kind = "hit"
                /\ last.response = stored[LastKey].response)
        /\ (last.t - last.prevT >= CACHE_DURATION =>
                /\ last.kind /= "hit"
                /\ LastKey \in DOMAIN response_cache
                /\ response_cache[LastKey] = <<last.response, last.t>>)

\* C2 amended: as C2, but the request arriving once CACHE_DURATION has elapsed
\* rewrites the entry with the new time only when the handler returns a
\* response; when the handler raises, the entry is not rewritten.
C2_CacheTTL ==
    (last.kind /= "none" /\ last.prevT >= 0) =>
        /\ (last.t - last.prevT < CACHE_DURATION =>
                /\ last.kind = "hit"
                /\ last.response = stored[LastKey].response)
        /\ (last.t - last.prevT >= CACHE_DURATION =>
                /\ last.kind /= "hit"
                /\ (last.kind = "ok" =>
                        /\ LastKey \in DOMAIN response_cache
                        /\ response_cache[LastKey] = <<last.response, last.t>>)
                /\ (last.kind = "error" =>
                        \/ LastKey \notin DOMAIN response_cache
                        \/ response_cache[LastKey][2] = last.prevT))

\* a key was stored, served from the cache, and a request arriving once
\* CACHE_DURATION had elapsed ran the handler and rewrote the entry
C2_Witness ==
    /\ last.kind = "ok"
    /\ last.prevT >= 0
    /\ last.prevHit
    /\ last.t - last.prevT >= CACHE_DURATION
    /\ response_cache[LastKey] = <<last.response, last.t>>

\* C3: no ask request is answered, from the cache or by the QA engine, unless
\* rate_limit_check ran for it first and admitted it.
C3_AdmissionBeforeCache ==
    last.kind \in {"hit", "ok"} => last.admitted

\* C5: a hit never moves the write timestamp: every entry of the cache carries
\* the time and the response of the last miss that stored it, and a request is
\* served from the cache only less than CACHE_DURATION after that time.
C5_NoRefreshOnHit ==
    /\ \A k \in DOMAIN response_cache :
           response_cache[k] = <<stored[k].response, stored[k].t>>
    /\ last.kind = "hit" => last.t - stored[LastKey].t < CACHE_DURATION

\* an entry that had been served from the cache was asked for again once
\* CACHE_DURATION had elapsed since it was written, and was not served
C5_Witness ==
    /\ last.kind /= "none"
    /\ last.kind /= "hit"
    /\ last.prevT >= 0
    /\ last.prevHit
    /\ last.t - last.prevT >= CACHE_DURATION

\* C6: question texts that differ only in leading or trailing whitespace share
\* one cache entry, and the QA engine is not invoked for a question while a
\* response stored for such a text is less than CACHE_DURATION old.
C6_TrimmedKey ==
    /\ \A k1, k2 \in DOMAIN response_cache : strip(k1) = strip(k2) => k1 = k2
    /\ last.kind = "ok" =>
           \A k \in Questions :
               (k /= last.question /\ strip(k) = strip(last.question)
                    /\ stored[k].t >= 0)
                   => last.t - stored[k].t >= CACHE_DURATION

\* C19: when a miss has been handled (the handler ran, the response was
\* stored, the cache was swept) the cache holds no expired entry: every entry
\* left is one a lookup made at that moment would serve, and the sweep removed
\* no entry such a lookup would serve; the expiry tests of the lookup and of
\* clean_cache agree at every age, CACHE_DURATION itself included.
C19_SweepStep ==
    response_cache' /= response_cache =>
        /\ \A k \in DOMAIN response_cache' : CacheFresh(response_cache', k, now')
        /\ \A k \in DOMAIN response_cache :
               CacheFresh(response_cache, k, now') => k \in DOMAIN response_cache'

C19_SweepMatchesLookup == [][C19_SweepStep]_vars

----------------------------------------------------------------------------
\* the input and the result of the answer_question call, once it has ended
In == Get(aq_in, Missing)
Out == Get(aq_out, Missing)

\* the chain call or the source-shaping step fails on this input
StageFails(in) == in.chain.kind = "raise" \/ in.response_format = Missing

Contents(seq) == {seq[i].page_content : i \in DOMAIN seq}

\* C4: answer_question never raises to its caller: when the chain call or the
\* source shaping (the configuration lookup included) fails the result is the
\* fixed fallback text with an empty source list, and otherwise the answer is
\* the chain's and every source is the content of a retrieved document.
C4_NeverRaises ==
    aq_out /= {} =>
        /\ ~Out.raised
        /\ StageFails(In) =>
               /\ Out.answer = FallbackText
               /\ Out.sources = << >>
        /\ ~StageFails(In) =>
               /\ Out.answer = In.chain.result
               /\ \A i \in DOMAIN Out.sources :
                      Out.sources[i].content \in Contents(In.chain.source_documents)

\* the chain answered, the configuration lookup failed, and the call returned
\* the fallback
C4_Witness ==
    /\ aq_out /= {}
    /\ In.chain.kind = "ok"
    /\ In.response_format = Missing
    /\ ~Out.raised
    /\ Out.answer = FallbackText

\* s is t with some elements left out, the order kept
RECURSIVE IsSubSeq(_, _)
IsSubSeq(s, t) ==
    IF s = << >> THEN TRUE
    ELSE IF t = << >> THEN FALSE
    ELSE IF Head(s) = Head(t) THEN IsSubSeq(Tail(s), Tail(t))
    ELSE IsSubSeq(s, Tail(t))

ContentSeq(seq) == [i \in DOMAIN seq |-> seq[i].page_content]
SourceContents(seq) == [i \in DOMAIN seq |-> seq[i].content]

\* C10: with duplicate filtering on, the returned sources are the retrieved
\* chunks deduplicated by content and then capped: no two have equal content,
\* there are at most max_sources, rank order is kept, and when the retrieved
\* list has at least max_sources distinct contents exactly max_sources are
\* returned.
C10_DedupThenCap ==
    (/\ aq_out /= {}
     /\ ~StageFails(In)
     /\ Get(Get(In.response_format, Missing).filter_duplicates, TRUE)) =>
        LET sources == Out.sources
            retrieved == In.chain.source_documents
            max_sources ==
                Get(Get(In.response_format, Missing).max_sources, DefaultMaxSources)
        IN /\ \A i, j \in DOMAIN sources :
                  sources[i].content = sources[j].content => i = j
           /\ Len(sources) <= max_sources
           /\ IsSubSeq(SourceContents(sources), ContentSeq(retrieved))
           /\ Cardinality(Contents(retrieved)) >= max_sources =>
                  Len(sources) = max_sources

\* The metadata fields the project's configuration names (metadata_fields,
\* required and optional): the one fixed list of metadata keys in the source
AllowedMetadataKeys ==
    {"title", "category", "date", "keywords", "source", "author", "version"}

\* C11: every metadata key of a source returned by answer_question belongs to
\* the fixed allow-list; a key of the retrieved chunk's metadata that is not
\* on the list never appears in the response.
C11_MetadataAllowList ==
    aq_out /= {} =>
        \A i \in DOMAIN Out.sources :
            Out.sources[i].metadata \subseteq AllowedMetadataKeys

----------------------------------------------------------------------------
\* load_documents has returned
Returned ==all_files /= << >> /\ collected = Files

Retained == {documents[k] : k \in DOMAIN documents}

\* C8 as stated: after load_documents returns no two retained files have the
\* same hash, there are as many hashes in processed_hashes as retained files,
\* and a file is retained exactly when it loaded to a non-empty result and no
\* file before it had the same hash.
C8_Original ==
    Returned =>
        /\ \A i, j \in Retained : all_files[i] = all_files[j] => i = j
        /\ Cardinality(processed_hashes) = Len(documents)
        /\ \A i \in Files :
               i \in Retained <=>
                   /\ result[i] = "docs"
                   /\ ~\E j \in Files : j < i /\ all_files[j] = all_files[i]

\* C8 amended: as C8, but a file is retained exactly when it loaded to a
\* non-empty result, its hash could be computed, and no file retained before
\* it had the same hash.
C8_UniqueHashes ==
    Returned =>
        /\ \A i, j \in Retained : all_files[i] = all_files[j] => i = j
        /\ Cardinality(processed_hashes) = Len(documents)
        /\ \A i \in Files :
               i \in Retained <=>
                   /\ result[i] = "docs"
                   /\ i \notin hash_failed
                   /\ ~\E j \in Retained : j < i /\ all_files[j] = all_files[i]

\* load_documents returned having dropped a duplicate of a retained file and
\* having retained a file whose earlier byte-identical copy did not load
C8_Witness ==
    /\ Returned
    /\ \E i, j \in Files :
           /\ i < j
           /\ all_files[i] = all_files[j]
           /\ result[i] = "falsy"
           /\ j \in Retained
    /\ \E i, j \in Files :
           /\ i < j
           /\ all_files[i] = all_files[j]
           /\ i \in Retained
           /\ result[j] = "docs"
           /\ j \notin Retained

\* C9 as stated: among byte-identical files the retained one is the one whose
\* load completed first.
C9_Original ==
    Returned => \A i \in Retained : first_loaded[all_files[i]] = i

\* C9 amended: among byte-identical files the retained one is the first in
\* submission order of those that loaded to a non-empty result and could be
\* hashed, whatever the order in which the loads completed.
C9_SubmissionOrder ==
    Returned =>
        \A i \in Retained : \A j \in Files :
            (/\ all_files[j] = all_files[i]
             /\ result[j] = "docs"
             /\ j \notin hash_failed) => i <= j

\* the retained file is the earlier one although the load of its later
\* byte-identical copy completed first
C9_Witness ==
    /\ Returned
    /\ \E i \in Retained :
           /\ first_loaded[all_files[i]] > i
           /\ first_loaded[all_files[i]] \notin hash_failed

\* the files load_single_document skipped or failed on
FailedKinds == {"disallowed", "oversized", "no_loader", "parser_error"}

\* C12: a failure of one file never aborts ingestion: whichever files are of
\* a disallowed extension, too large, without a loader, failing in the loader
\* or failing while hashed, no exception leaves load_documents, no such file
\* is retained, and once it has returned every other file that loaded to a
\* non-empty result and has no retained byte-identical copy is retained.
C12_FailureIsolated ==
    /\ ~load_raised
    /\ \A i \in Retained : outcome[i] = "docs" /\ i \notin hash_failed
    /\ Returned =>
           \A i \in Files :
               (/\ outcome[i] = "docs"
                /\ i \notin hash_failed
                /\ ~\E j \in Retained : j /= i /\ all_files[j] = all_files[i])
                   => i \in Retained

\* load_documents returned having been through a file that failed in
\* load_single_document and a file whose hashing failed, and retained a file
\* that came after both
C12_Witness ==
    /\ Returned
    /\ \E i, j, k \in Files :
           /\ i < k
           /\ j < k
           /\ outcome[i] \in FailedKinds
           /\ j \in hash_failed
           /\ k \in Retained

----------------------------------------------------------------------------
\* the chunks of the corpus, and the entries the last start added to the index
Texts == split_documents(corpus)
Added == SubSeq(index, started.before + 1, Len(index))

\* no request has been answered since the last start, from the cache or by
\* the QA engine, and a request that passed the rate limit was told the bot is
\* unavailable
NothingAnswered ==
    /\ aq_out = {}
    /\ last.kind \notin {"hit", "ok"}
    /\ last.admitted => last.status = 503

\* C13: when load_documents returns no document, setup_bot raises right after
\* the load, before any splitting, embedding or index creation; the
\* construction of DocumentBot does not complete (bot is None); from then on
\* no question reaches the QA engine: ask answers 503 to every request it
\* admits, and the health check reports "unavailable".
C13_NoDocumentsFatal ==
    (started.n > 0 /\ "document_settings" \in config /\ corpus = << >>) =>
        /\ started.exc = "ValueError"
        /\ started.stages = <<"load">>
        /\ index = << >>
        /\ ~bot
        /\ NothingAnswered
        /\ health_check(bot) = "unavailable"

\* the process started on an empty corpus and has answered 503 to a request
C13_Witness ==
    /\ started.n > 0
    /\ "document_settings" \in config
    /\ corpus = << >>
    /\ last.status = 503

\* C14: when an embedding call fails while the index is built (all of them,
\* when the service is unreachable), setup_bot raises, nothing is added to the
\* index, bot is None and no question is answered; and whenever the bot is
\* available the last start added every chunk of the corpus to the index.
C14_EmbeddingFailureFatal ==
    /\ (started.n > 0 /\ started.failed /= {}) =>
           /\ started.exc = "EmbeddingError"
           /\ Added = << >>
           /\ ~bot
           /\ NothingAnswered
    /\ bot => (Texts /= << >> /\ Added = Texts)

\* the embedding service was unreachable during the start and a request has
\* been answered 503
C14_Witness ==
    /\ started.n > 0
    /\ Texts /= << >>
    /\ started.failed = DOMAIN Texts
    /\ last.status = 503

\* C15: when the embedding fails for some chunks but not for all, only those
\* chunks are dropped: setup completes and the start adds to the index exactly
\* the chunks whose embedding succeeded.
C15_FailedChunksDropped ==
    (/\ started.n > 0
     /\ config = RequiredSections
     /\ started.failed /= {}
     /\ started.failed /= DOMAIN Texts) =>
        /\ started.exc = "none"
        /\ bot
        /\ Added = Embedded(Texts, started.failed, 1)

\* C16: after any number of successful setup_bot runs on the same corpus,
\* persist directory and collection, the index has as many entries as one
\* ingestion makes chunks, and no two entries have the same content.
C16_ReingestIdempotent ==
    (started.n > 0 /\ started.exc = "none") =>
        /\ Len(index) = Len(Texts)
        /\ \A i, j \in DOMAIN index : index[i] = index[j] => i = j

\* C17: when one of the configuration keys the code reads is absent the
\* construction of DocumentBot fails, so no answer_question call of a started
\* bot fails on a missing key.
C17_MissingKeyFatal ==
    /\ (started.n > 0 /\ ~(RequiredSections \subseteq config)) => ~bot
    /\ (bot /\ aq_out /= {}) => TryBody(In).exc /= "KeyError"

----------------------------------------------------------------------------
\* C20: under every interleaving of concurrent cache_response wrappers,
\* clean_cache completes without error: no handler deletes a key that the
\* sweep of another handler has already removed.
C20_AtomicCache == sweep_failed = {}

----------------------------------------------------------------------------
\* the step is a request to /api/ask for the question q
RequestFor(q) ==
    /\ last'.question = q
    /\ last'.t = now
    /\ <<rate_limit_data, response_cache, last, stored>>' /=
           <<rate_limit_data, response_cache, last, stored>>

\* C21: a fallback answer is cached like a normal answer: when the handler
\* called answer_question and the call failed inside, the request ends with
\* status 200 and the fallback, and the cache holds the fallback under the
\* question with the time of the request; and a request for a question whose
\* last stored response is the fallback, stored less than CACHE_DURATION
\* before, is served the fallback from the cache without the handler running.
C21_Step ==
    \A q \in SetupQuestions :
        RequestFor(q) =>
            /\ (last'.kind = "ok" /\ StageFails(Get(aq_in', Missing))) =>
                   /\ Get(aq_out', Missing).answer = FallbackText
                   /\ last'.status = 200
                   /\ last'.response = Fallback
                   /\ cache_key(q) \in DOMAIN response_cache'
                   /\ response_cache'[cache_key(q)] = <<Fallback, now>>
            /\ (/\ stored[cache_key(q)].response = Fallback
                /\ now - stored[cache_key(q)].t < CACHE_DURATION) =>
                   /\ last'.kind = "hit"
                   /\ last'.response = Fallback
                   /\ UNCHANGED <<response_cache, rate_limit_data, aq_in, aq_out>>

C21_FallbackCached == [][C21_Step]_vars

\* an answer_question call failed inside, and a later request for the same
\* question has been served the fallback from the cache
C21_Witness ==
    /\ aq_out /= {}
    /\ StageFails(In)
    /\ Out.answer = FallbackText
    /\ last.kind = "hit"
    /\ last.response = Fallback
    /\ last.t > stored[LastKey].t

\* C22: a request whose handler raises (429, 503, 400 or 500) leaves the
\* response cache as it was: no entry is stored, overwritten or swept; so
\* every entry of the cache holds a response of answer_question, and what a
\* hit serves is such a response with status 200.
C22_Step ==
    /\ (last'.kind = "error" /\ \E q \in Questions : RequestFor(q)) =>
           /\ last'.status \in {429, 503, 400, 500}
           /\ UNCHANGED <<response_cache, stored>>
    /\ \A k \in DOMAIN response_cache' : response_cache'[k][1] \in Responses
    /\ last'.kind = "hit" => (last'.status = 200 /\ last'.response \in Responses)

C22_ErrorLeavesCache == [][C22_Step]_vars

\* ask has raised the unexpected-error APIError for a question whose entry is
\* older than CACHE_DURATION: the entry is still there, neither overwritten
\* nor swept
C22_Witness ==
    /\ last.kind = "error"
    /\ last.status = 500
    /\ LastKey \in DOMAIN response_cache
    /\ response_cache[LastKey][2] = last.prevT
    /\ now - response_cache[LastKey][2] > CACHE_DURATION

----------------------------------------------------------------------------
\* the calls of client c admitted at the times from s to e
RECURSIVE AdmittedIn(_, _, _)
AdmittedIn(c, s, e) ==
    IF s > e \/ s > MaxTime THEN 0
    ELSE admitted_at[c][s].n + AdmittedIn(c, s + 1, e)

\* C23: for one client calling one call after the other, the calls admitted
\* in any interval of length time_window are at most 2 * max_requests, and
\* they are more than max_requests only when a window of the client that
\* follows admitted calls of the interval starts inside it.
C23_BurstBound ==
    \A c \in PathClients : \A s \in Times :
        LET n == AdmittedIn(c, s, s + time_window) IN
        /\ n <= 2 * max_requests
        /\ n > max_requests =>
               \E b \in (s + 1)..(s + time_window) :
                   /\ b \in Times
                   /\ admitted_at[c][b].start
                   /\ AdmittedIn(c, s, b - 1) > 0

\* 2 * max_requests calls of the client were admitted in one interval of
\* length time_window
C23_Witness ==
    \E c \in PathClients : \E s \in Times :
        AdmittedIn(c, s, s + time_window) = 2 * max_requests

----------------------------------------------------------------------------
\* C7: under every interleaving of concurrent rate_limit_check calls, the
\* calls of one client that return True inside one window never exceed
\* max_requests, and once no call is in flight the stored count of the client
\* is the number of its calls admitted in the window.
C7_AtomicRateLimit ==
    \A c \in ConcClients :
        /\ admitted_calls[c] <= max_requests
        /\ (admitted_calls[c] > 0 /\ \A th \in Threads : thr[th].pc = "idle") =>
               /\ c \in DOMAIN rate_limit_data
               /\ rate_limit_data[c][1] = admitted_calls[c]

====
